---------------------------- MODULE Spec2Model ----------------------------
(***************************************************************************)
(* A model of userspace/primes/primes.c: a freestanding program that       *)
(* parses a decimal argument, searches for the Nth prime by trial          *)
(* division, renders the result into a fixed 100-character buffer and      *)
(* prints it through the syscall_print / syscall_exit primitives.          *)
(*                                                                         *)
(* Characters are their ASCII codes.  A char* into an immutable,           *)
(* NUL-terminated string is the sequence of bytes from the pointer on      *)
(* (dereferencing is Head, str++ is Tail).  A pointer into main's buffer   *)
(* is an offset into its memory.  Every function has a record holding      *)
(* its parameters and locals under the names the source gives them.        *)
(***************************************************************************)
EXTENDS Integers, Sequences, FiniteSets, TLC

VARIABLES
    argv,       \* the user arguments argv[1..argc-1], each a NUL-terminated string
    unit,       \* which entry point runs: main, or one function called alone
    pc,         \* the statement control is at
    ret,        \* where the running function returns to
    rv,         \* the value the last function returned
    m,          \* main's locals: n_str, n, nth_prime, ptr
    buffer,     \* main's char buffer[100] and the stack bytes above it
    sti,        \* str_to_int's str, x
    nnp,        \* naive_nth_prime's n, i, count
    cpy,        \* _strcpy's src, dest
    its,        \* int_to_str's x, buffer, i, j
    printed,    \* the calls of syscall_print so far: [str, len]
    exited,     \* the exit statuses the process ended with so far
    started,    \* the functions called so far
    oob,        \* a store went past buffer[99]
    faulted     \* the process was ended by a fault, not by exit

vars == <<argv, unit, pc, ret, rv, m, buffer, sti, nnp, cpy, its,
          printed, exited, started, oob, faulted>>

----------------------------------------------------------------------------
(* Program constants *)

\* char buffer[100]
BufSize == 100

\* '\0'
NUL == 0

\* '0' and '9'
Ch0 == 48
Ch9 == 57

\* the largest int (32 bits, two's complement)
IntMax == 2147483647
IntMin == (-IntMax) - 1

\* "The "
The == <<84, 104, 101, 32, NUL>>

\* "th prime is: "
ThPrimeIs == <<116, 104, 32, 112, 114, 105, 109, 101, 32, 105, 115, 58, 32, NUL>>

\* "Usage: primes <n>\n"
usage == <<85, 115, 97, 103, 101, 58, 32, 112, 114, 105, 109, 101, 115, 32,
           60, 110, 62, 10, NUL>>

\* "Error: non-digit character in integer string\n"
err == <<69, 114, 114, 111, 114, 58, 32, 110, 111, 110, 45, 100, 105, 103,
         105, 116, 32, 99, 104, 97, 114, 97, 99, 116, 101, 114, 32, 105, 110,
         32, 105, 110, 116, 101, 103, 101, 114, 32, 115, 116, 114, 105, 110,
         103, 10, NUL>>

----------------------------------------------------------------------------
(* Bounds of the model *)

\* argument texts carry 0..MaxPad leading zeros
MaxPad == 83

\* bytes of stack above buffer[] that a store past the buffer can still land in
AboveBuf == 16

\* the functions called alone take arguments up to MaxArg
MaxArg == 24

\* naive_nth_prime called alone takes n up to MaxN
MaxN == 12

MemSize == BufSize + AboveBuf

----------------------------------------------------------------------------
(* int arithmetic.  An int has 32 bits.  Overflow of a signed int is       *)
(* undefined; str_to_int's x *= 10 and x += ... are compiled to the        *)
(* machine's two's-complement multiply and add, and nothing branches on    *)
(* x, so the outcome is the wrapped value.  The sums below never leave     *)
(* the 32-bit range themselves.                                            *)

\* a + b on ints
Add32(a, b) ==
    IF a > 0 /\ b > 0 /\ a > IntMax - b
    THEN ((a - IntMax) - 1) + ((b - IntMax) - 1)
    ELSE IF a < 0 /\ b < 0 /\ a < IntMin - b
         THEN ((a + IntMax) + 1) + ((b + IntMax) + 1)
         ELSE a + b

\* x *= 10
Mul10(x) ==
    LET x2 == Add32(x, x)
        x4 == Add32(x2, x2)
        x8 == Add32(x4, x4)
    IN  Add32(x8, x2)

----------------------------------------------------------------------------
(* The functions that only read *)

RECURSIVE is_prime_from(_, _)
\* the loop of is_prime from divisor i on
is_prime_from(x, i) ==
    IF i < x
    THEN IF x % i = 0 THEN 0 ELSE is_prime_from(x, i + 1)
    ELSE 1

\* int is_prime(int x)
is_prime(x) == is_prime_from(x, 2)

RECURSIVE _strlen(_)
\* int _strlen(char *str)
_strlen(str) == IF Head(str) = NUL THEN 0 ELSE 1 + _strlen(Tail(str))

\* the bytes syscall_print(str, len) writes out
Bytes(str, len) == SubSeq(str, 1, len)

\* the pointer buffer + off: the bytes of memory from there on
At(mem, off) == [k \in 1..(MemSize - off) |-> mem[off + k - 1]]

\* char buffer[100] = "The ": the rest of the array is zeroed
BufferInit ==
    [k \in 0..(MemSize - 1) |-> IF k < Len(The) THEN The[k + 1] ELSE NUL]

\* a buffer the caller has not written: every byte is fill
BufferFill(fill) == [k \in 0..(MemSize - 1) |-> fill]

\* NonDigit with the upper comparison left out: only *str < '0'
NonDigitBelow(c) == c < Ch0

\* *str < '0' || *str > '9'
NonDigit(c) == c < Ch0 \/ c > Ch9

\* SearchGoesOn with one turn too many: count <= n
SearchGoesOnAtN(count, n) == count <= n

\* count < n
SearchGoesOn(count, n) == count < n

\* x > 0, int_to_str's first loop
DigitsLeft(x) == x > 0

\* the digit int_to_str stores: (x % 10) + '0'
DigitChar(x) == (x % 10) + Ch0

\* the value naive_nth_prime returns, from its locals
SearchResult(f) == f.i

----------------------------------------------------------------------------
(* The inputs *)

\* k leading zeros
Zeros(k) == [j \in 1..k |-> Ch0]

\* what follows the leading zeros:
\* "", "1", "2", "5", "12", "/", ":", "a", "1:", "3x", "12a3"
Tails ==
    { <<>>, <<49>>, <<50>>, <<53>>, <<49, 50>>,
      <<47>>, <<58>>, <<97>>, <<49, 58>>, <<51, 120>>, <<49, 50, 97, 51>> }

\* texts whose value does not fit an int:
\* "4294967298", "2147483648", "9999999999a"
LongTexts ==
    { <<52, 50, 57, 52, 57, 54, 55, 50, 57, 56>>,
      <<50, 49, 52, 55, 52, 56, 51, 54, 52, 56>>,
      <<57, 57, 57, 57, 57, 57, 57, 57, 57, 57, 97>> }

\* the argument strings
Args ==
    { Zeros(k) \o t \o <<NUL>> : k \in 0..MaxPad, t \in Tails }
        \cup { t \o <<NUL>> : t \in LongTexts }

\* the argument vectors: none, one, or two user arguments
Argvs ==
    { <<>> } \cup { <<a>> : a \in Args }
        \cup { <<t \o <<NUL>>, <<53, NUL>> >> : t \in Tails }

\* argc: the program's name and the user arguments
argc == Len(argv) + 1

\* the functions called alone, each with its arguments
UnitCalls ==
    [fn : {"is_prime"}, arg : (-3)..MaxArg]
        \cup [fn : {"naive_nth_prime"}, arg : 0..MaxN]
        \cup [fn : {"int_to_str"},
              arg : 0..MaxArg \cup {120, 1000, 999999999}, fill : {NUL, 63}]
        \cup [fn : {"round_trip"},
              arg : 0..MaxArg \cup {120, 1000, 999999999}, fill : {NUL, 63}]
        \cup [fn : {"str_to_int"}, arg : {t \o <<NUL>> : t \in Tails}]

----------------------------------------------------------------------------
(* The initial states *)

Frames ==
    /\ ret = "none"
    /\ rv = 0
    /\ m = [n_str |-> <<NUL>>, n |-> 0, nth_prime |-> 0, ptr |-> 0]
    /\ buffer = BufferFill(NUL)
    /\ sti = [str |-> <<NUL>>, x |-> 0]
    /\ nnp = [n |-> 0, i |-> 0, count |-> 0]
    /\ cpy = [src |-> <<NUL>>, dest |-> 0]
    /\ its = [x |-> 0, buffer |-> 0, i |-> 0, j |-> 0]
    /\ printed = <<>>
    /\ exited = <<>>
    /\ started = {}
    /\ oob = FALSE
    /\ faulted = FALSE

\* the process enters main with its arguments
Init ==
    /\ argv \in Argvs
    /\ unit = [fn |-> "main"]
    /\ pc = "main"
    /\ Frames

\* one function is called alone
InitUnit ==
    /\ argv = <<>>
    /\ unit \in UnitCalls
    /\ pc = "unit"
    /\ Frames

----------------------------------------------------------------------------
(* The external primitives *)

\* syscall_print(str, len)
syscall_print(str, len) ==
    printed' = Append(printed, [str |-> Bytes(str, len), len |-> len])

\* syscall_exit(exit_code): the process ends
syscall_exit(exit_code) ==
    /\ exited' = Append(exited, exit_code)
    /\ pc' = "halted"

\* a store to buffer + off lands in the buffer or in the stack above it
Mapped(off) == off >= 0 /\ off < MemSize

\* *(buffer + off) = c
Store(off, c) ==
    /\ Mapped(off)
    /\ buffer' = [buffer EXCEPT ![off] = c]
    /\ oob' = (oob \/ off >= BufSize)

----------------------------------------------------------------------------
(* Entering a function: its parameters and the locals it declares *)

\* str_to_int(str), returning to `to`: int x = 0;
Call_str_to_int(str, to) ==
    /\ sti' = [str |-> str, x |-> 0]
    /\ started' = started \cup {"str_to_int"}
    /\ pc' = "str_to_int"
    /\ ret' = to

\* naive_nth_prime(n), returning to `to`: int i = 2; int count = 0;
Call_naive_nth_prime(n, to) ==
    /\ nnp' = [n |-> n, i |-> 2, count |-> 0]
    /\ started' = started \cup {"naive_nth_prime"}
    /\ pc' = "naive_nth_prime"
    /\ ret' = to

\* _strcpy(dest, src), returning to `to`
Call_strcpy(dest, src, to) ==
    /\ cpy' = [src |-> src, dest |-> dest]
    /\ started' = started \cup {"_strcpy"}
    /\ pc' = "_strcpy"
    /\ ret' = to

\* int_to_str(x, buffer), returning to `to`: int i = 0;
Call_int_to_str(x, buf, to) ==
    /\ its' = [x |-> x, buffer |-> buf, i |-> 0, j |-> 0]
    /\ started' = started \cup {"int_to_str"}
    /\ pc' = "int_to_str"
    /\ ret' = to

----------------------------------------------------------------------------
(* main, up to the search *)

\* WrongArgc refusing only a missing argument: argc < 2
WrongArgcTooFew == argc < 2

\* argc != 2
WrongArgc == argc # 2

\* if (argc != 2) { syscall_print(usage, _strlen(usage));
MainUsage ==
    /\ pc = "main"
    /\ WrongArgc
    /\ syscall_print(usage, _strlen(usage))
    /\ pc' = "main_usage_exit"
    /\ UNCHANGED <<argv, unit, ret, rv, m, buffer, sti, nnp, cpy, its,
                   exited, started, oob, faulted>>

\* syscall_exit(1); }
MainUsageExit ==
    /\ pc = "main_usage_exit"
    /\ syscall_exit(1)
    /\ UNCHANGED <<argv, unit, ret, rv, m, buffer, sti, nnp, cpy, its,
                   printed, started, oob, faulted>>

\* char *n_str = argv[1]; ... str_to_int(n_str)
MainParse ==
    /\ pc = "main"
    /\ ~WrongArgc
    /\ m' = [m EXCEPT !.n_str = argv[1]]
    /\ Call_str_to_int(argv[1], "main_n")
    /\ UNCHANGED <<argv, unit, rv, buffer, nnp, cpy, its,
                   printed, exited, oob, faulted>>

----------------------------------------------------------------------------
(* int str_to_int(char *str) *)

\* one turn of the loop on a digit: x *= 10; x += *str - '0'; str++;
StrToIntDigit ==
    /\ pc = "str_to_int"
    /\ Head(sti.str) # NUL
    /\ ~NonDigit(Head(sti.str))
    /\ sti' = [str |-> Tail(sti.str),
               x |-> Add32(Mul10(sti.x), Head(sti.str) - Ch0)]
    /\ UNCHANGED <<argv, unit, pc, ret, rv, m, buffer, nnp, cpy, its,
                   printed, exited, started, oob, faulted>>

\* a turn of the loop on another character: x *= 10; syscall_print(err, _strlen(err));
StrToIntError ==
    /\ pc = "str_to_int"
    /\ Head(sti.str) # NUL
    /\ NonDigit(Head(sti.str))
    /\ sti' = [sti EXCEPT !.x = Mul10(sti.x)]
    /\ syscall_print(err, _strlen(err))
    /\ pc' = "str_to_int_exit"
    /\ UNCHANGED <<argv, unit, ret, rv, m, buffer, nnp, cpy, its,
                   exited, started, oob, faulted>>

\* syscall_exit(1);
StrToIntExit ==
    /\ pc = "str_to_int_exit"
    /\ syscall_exit(1)
    /\ UNCHANGED <<argv, unit, ret, rv, m, buffer, sti, nnp, cpy, its,
                   printed, started, oob, faulted>>

\* *str == '\0': return x;
StrToIntReturn ==
    /\ pc = "str_to_int"
    /\ Head(sti.str) = NUL
    /\ rv' = sti.x
    /\ pc' = ret
    /\ UNCHANGED <<argv, unit, ret, m, buffer, sti, nnp, cpy, its,
                   printed, exited, started, oob, faulted>>

----------------------------------------------------------------------------
(* int naive_nth_prime(int n) *)

\* int n = str_to_int(n_str); ... naive_nth_prime(n): int i = 2; int count = 0;
MainSearch ==
    /\ pc = "main_n"
    /\ m' = [m EXCEPT !.n = rv]
    /\ Call_naive_nth_prime(rv, "main_nth_prime")
    /\ UNCHANGED <<argv, unit, rv, buffer, sti, cpy, its,
                   printed, exited, oob, faulted>>

\* one turn of the loop: if (is_prime(i)) { count++; } i++;
NaiveNthPrimeLoop ==
    /\ pc = "naive_nth_prime"
    /\ SearchGoesOn(nnp.count, nnp.n)
    /\ nnp' = [nnp EXCEPT
                 !.count = IF is_prime(nnp.i) # 0 THEN nnp.count + 1 ELSE nnp.count,
                 !.i = nnp.i + 1]
    /\ UNCHANGED <<argv, unit, pc, ret, rv, m, buffer, sti, cpy, its,
                   printed, exited, started, oob, faulted>>

\* the loop is over: return i;
NaiveNthPrimeReturn ==
    /\ pc = "naive_nth_prime"
    /\ ~SearchGoesOn(nnp.count, nnp.n)
    /\ rv' = SearchResult(nnp)
    /\ pc' = ret
    /\ UNCHANGED <<argv, unit, ret, m, buffer, sti, nnp, cpy, its,
                   printed, exited, started, oob, faulted>>

----------------------------------------------------------------------------
(* main: the message *)

\* int nth_prime = naive_nth_prime(n); char buffer[100] = "The ";
\* char *ptr = buffer + _strlen(buffer); ... _strcpy(ptr, n_str)
MainBuffer ==
    /\ pc = "main_nth_prime"
    /\ buffer' = BufferInit
    /\ m' = [m EXCEPT !.nth_prime = rv, !.ptr = _strlen(At(BufferInit, 0))]
    /\ Call_strcpy(_strlen(At(BufferInit, 0)), m.n_str, "main_ptr1")
    /\ UNCHANGED <<argv, unit, rv, sti, nnp, its,
                   printed, exited, oob, faulted>>

\* ptr = _strcpy(ptr, n_str); ... _strcpy(ptr, "th prime is: ")
MainMiddle ==
    /\ pc = "main_ptr1"
    /\ m' = [m EXCEPT !.ptr = rv]
    /\ Call_strcpy(rv, ThPrimeIs, "main_ptr2")
    /\ UNCHANGED <<argv, unit, rv, buffer, sti, nnp, its,
                   printed, exited, oob, faulted>>

\* ptr = _strcpy(ptr, "th prime is: "); int_to_str(nth_prime, ptr);
MainRender ==
    /\ pc = "main_ptr2"
    /\ m' = [m EXCEPT !.ptr = rv]
    /\ Call_int_to_str(m.nth_prime, rv, "main_print")
    /\ UNCHANGED <<argv, unit, rv, buffer, sti, nnp, cpy,
                   printed, exited, oob, faulted>>

\* syscall_print((char *)buffer, _strlen(buffer));
MainPrint ==
    /\ pc = "main_print"
    /\ syscall_print(At(buffer, 0), _strlen(At(buffer, 0)))
    /\ pc' = "main_return"
    /\ UNCHANGED <<argv, unit, ret, rv, m, buffer, sti, nnp, cpy, its,
                   exited, started, oob, faulted>>

\* return 0; the value main returns is the status the process exits with
MainReturn ==
    /\ pc = "main_return"
    /\ syscall_exit(0)
    /\ UNCHANGED <<argv, unit, ret, rv, m, buffer, sti, nnp, cpy, its,
                   printed, started, oob, faulted>>

----------------------------------------------------------------------------
(* char *_strcpy(char *dest, char *src) *)

\* one turn of the loop: *dest = *src; src++; dest++;
StrcpyLoop ==
    /\ pc = "_strcpy"
    /\ Head(cpy.src) # NUL
    /\ Store(cpy.dest, Head(cpy.src))
    /\ cpy' = [src |-> Tail(cpy.src), dest |-> cpy.dest + 1]
    /\ UNCHANGED <<argv, unit, pc, ret, rv, m, sti, nnp, its,
                   printed, exited, started, faulted>>

\* *src == '\0': *dest = '\0'; return dest;
StrcpyReturn ==
    /\ pc = "_strcpy"
    /\ Head(cpy.src) = NUL
    /\ Store(cpy.dest, NUL)
    /\ rv' = cpy.dest
    /\ pc' = ret
    /\ UNCHANGED <<argv, unit, ret, m, sti, nnp, cpy, its,
                   printed, exited, started, faulted>>

----------------------------------------------------------------------------
(* void int_to_str(int x, char buffer[]) *)

\* Reversing with the reversal left out: the digits stay least significant
\* first
ReversingNever(i, j) == FALSE

\* i < j, the reversal's loop
Reversing(i, j) == i < j

\* one turn of the first loop: buffer[i] = (x % 10) + '0'; x /= 10; i++;
IntToStrDigit ==
    /\ pc = "int_to_str"
    /\ DigitsLeft(its.x)
    /\ Store(its.buffer + its.i, DigitChar(its.x))
    /\ its' = [its EXCEPT !.x = its.x \div 10, !.i = its.i + 1]
    /\ UNCHANGED <<argv, unit, pc, ret, rv, m, sti, nnp, cpy,
                   printed, exited, started, faulted>>

\* the first loop is over: buffer[i] = '\0'; int j = i - 1; i = 0;
IntToStrTerminate ==
    /\ pc = "int_to_str"
    /\ ~DigitsLeft(its.x)
    /\ Store(its.buffer + its.i, NUL)
    /\ its' = [its EXCEPT !.j = its.i - 1, !.i = 0]
    /\ pc' = "int_to_str_reverse"
    /\ UNCHANGED <<argv, unit, ret, rv, m, sti, nnp, cpy,
                   printed, exited, started, faulted>>

\* one turn of the second loop: swap buffer[i] and buffer[j]; i++; j--;
IntToStrSwap ==
    /\ pc = "int_to_str_reverse"
    /\ Reversing(its.i, its.j)
    /\ Mapped(its.buffer + its.j)
    /\ buffer' = [buffer EXCEPT ![its.buffer + its.i] = buffer[its.buffer + its.j],
                                ![its.buffer + its.j] = buffer[its.buffer + its.i]]
    /\ oob' = (oob \/ its.buffer + its.j >= BufSize)
    /\ its' = [its EXCEPT !.i = its.i + 1, !.j = its.j - 1]
    /\ UNCHANGED <<argv, unit, pc, ret, rv, m, sti, nnp, cpy,
                   printed, exited, started, faulted>>

\* the second loop is over: the function returns
IntToStrReturn ==
    /\ pc = "int_to_str_reverse"
    /\ ~Reversing(its.i, its.j)
    /\ pc' = ret
    /\ UNCHANGED <<argv, unit, ret, rv, m, buffer, sti, nnp, cpy, its,
                   printed, exited, started, oob, faulted>>

----------------------------------------------------------------------------
(* Stores past the end of buffer[100] *)

\* A store past buffer[99] is undefined behaviour: it overwrites the stack
\* above the array (main's saved registers and return address).  The run may
\* go on as if nothing happened, or the process may be ended by a fault at
\* any later point, without reaching syscall_exit.
StackFault ==
    /\ oob
    /\ pc # "halted"
    /\ faulted' = TRUE
    /\ pc' = "halted"
    /\ UNCHANGED <<argv, unit, ret, rv, m, buffer, sti, nnp, cpy, its,
                   printed, exited, started, oob>>

----------------------------------------------------------------------------
(* One function called alone *)

\* is_prime(arg)
UnitIsPrime ==
    /\ pc = "unit"
    /\ unit.fn = "is_prime"
    /\ rv' = is_prime(unit.arg)
    /\ started' = started \cup {"is_prime"}
    /\ pc' = "unit_done"
    /\ UNCHANGED <<argv, unit, ret, m, buffer, sti, nnp, cpy, its,
                   printed, exited, oob, faulted>>

\* naive_nth_prime(arg)
UnitNaiveNthPrime ==
    /\ pc = "unit"
    /\ unit.fn = "naive_nth_prime"
    /\ Call_naive_nth_prime(unit.arg, "unit_done")
    /\ UNCHANGED <<argv, unit, rv, m, buffer, sti, cpy, its,
                   printed, exited, oob, faulted>>

\* str_to_int(arg)
UnitStrToInt ==
    /\ pc = "unit"
    /\ unit.fn = "str_to_int"
    /\ Call_str_to_int(unit.arg, "unit_done")
    /\ UNCHANGED <<argv, unit, rv, m, buffer, nnp, cpy, its,
                   printed, exited, oob, faulted>>

\* int_to_str(arg, buffer) on a buffer of the caller's, alone or before
\* parsing the buffer back
UnitIntToStr ==
    /\ pc = "unit"
    /\ unit.fn \in {"int_to_str", "round_trip"}
    /\ buffer' = BufferFill(unit.fill)
    /\ Call_int_to_str(unit.arg, 0,
                       IF unit.fn = "round_trip" THEN "unit_parse" ELSE "unit_done")
    /\ UNCHANGED <<argv, unit, rv, m, sti, nnp, cpy,
                   printed, exited, oob, faulted>>

\* str_to_int(buffer) on what int_to_str left
UnitParseBack ==
    /\ pc = "unit_parse"
    /\ Call_str_to_int(At(buffer, 0), "unit_done")
    /\ UNCHANGED <<argv, unit, rv, m, buffer, nnp, cpy, its,
                   printed, exited, oob, faulted>>

----------------------------------------------------------------------------
(* The specifications *)

str_to_int ==
    StrToIntDigit \/ StrToIntError \/ StrToIntExit \/ StrToIntReturn

naive_nth_prime == NaiveNthPrimeLoop \/ NaiveNthPrimeReturn

_strcpy == StrcpyLoop \/ StrcpyReturn

int_to_str ==
    IntToStrDigit \/ IntToStrTerminate \/ IntToStrSwap \/ IntToStrReturn

main ==
    \/ MainUsage \/ MainUsageExit \/ MainParse \/ MainSearch
    \/ MainBuffer \/ MainMiddle \/ MainRender \/ MainPrint \/ MainReturn

Next ==
    main \/ str_to_int \/ naive_nth_prime \/ _strcpy \/ int_to_str \/ StackFault

\* a run of the program
Spec == Init /\ [][Next]_vars

\* a run of the program that goes on while it can: the process is the only
\* thread, and nothing stops it between two statements
FairSpec == Spec /\ WF_vars(Next)

NextUnit ==
    \/ UnitIsPrime \/ UnitNaiveNthPrime \/ UnitStrToInt \/ UnitIntToStr
    \/ UnitParseBack
    \/ str_to_int \/ naive_nth_prime \/ int_to_str

\* a function called alone
SpecUnit == InitUnit /\ [][NextUnit]_vars

\* a function called alone that goes on while it can
FairSpecUnit == SpecUnit /\ WF_vars(NextUnit)

----------------------------------------------------------------------------
(* What the claims speak of, stated without the program's own functions *)

\* p is a prime number
IsPrimeNumber(p) == p >= 2 /\ \A d \in 2..(p - 1) : p % d # 0

\* the primes in [2, p]
PrimesUpTo(p) == {q \in 2..p : IsPrimeNumber(q)}

RECURSIVE NextPrimeAfter(_)
\* the least prime above q
NextPrimeAfter(q) ==
    IF IsPrimeNumber(q + 1) THEN q + 1 ELSE NextPrimeAfter(q + 1)

RECURSIVE NthPrime(_)
\* the Nth prime, counting from NthPrime(1) = 2
NthPrime(k) == IF k <= 1 THEN 2 ELSE NextPrimeAfter(NthPrime(k - 1))

RECURSIVE Decimal(_)
\* the decimal digits of v >= 0, most significant first, no leading zeros
Decimal(v) ==
    IF v < 10 THEN <<48 + v>> ELSE Decimal(v \div 10) \o <<48 + (v % 10)>>

\* the characters of a NUL-terminated string, without the NUL
Text(str) ==
    LET nul == CHOOSE k \in 1..Len(str) :
                   str[k] = 0 /\ \A h \in 1..(k - 1) : str[h] # 0
    IN  SubSeq(str, 1, nul - 1)

\* the text has a character that is no decimal digit
HasNonDigit(t) == \E k \in 1..Len(t) : t[k] \notin 48..57

RECURSIVE Significant(_)
\* the text without its leading zeros
Significant(t) ==
    IF t # <<>> /\ Head(t) = 48 THEN Significant(Tail(t)) ELSE t

RECURSIVE Value(_)
\* the number an all-digit text of at most nine significant digits denotes
Value(t) ==
    IF t = <<>> THEN 0 ELSE 10 * Value(SubSeq(t, 1, Len(t) - 1)) + (t[Len(t)] - 48)

\* "Usage: primes <n>\n"
UsageMessage ==
    <<85, 115, 97, 103, 101, 58, 32, 112, 114, 105, 109, 101, 115, 32,
      60, 110, 62, 10>>

\* "Error: non-digit character in integer string\n"
ErrorMessage ==
    <<69, 114, 114, 111, 114, 58, 32, 110, 111, 110, 45, 100, 105, 103,
      105, 116, 32, 99, 104, 97, 114, 97, 99, 116, 101, 114, 32, 105, 110,
      32, 105, 110, 116, 101, 103, 101, 114, 32, 115, 116, 114, 105, 110,
      103, 10>>

\* the call syscall_print(msg, length of msg)
PrintOf(msg) == [str |-> msg, len |-> Len(msg)]

\* main ran with exactly one user argument, whose text is ArgText
OneArg == unit.fn = "main" /\ Len(argv) = 1
ArgText == Text(argv[1])

\* the function fn, called alone, has returned
Returned(fn) == unit.fn = fn /\ pc = "unit_done"

----------------------------------------------------------------------------
(* The claims about the functions called alone, under SpecUnit *)

\* C1: for every n >= 1, naive_nth_prime(n) returns a prime p such that
\* exactly n primes lie in [2, p]: the Nth prime itself.
C1_ReturnsNthPrime ==
    (Returned("naive_nth_prime") /\ unit.arg >= 1)
        => /\ IsPrimeNumber(rv)
           /\ Cardinality(PrimesUpTo(rv)) = unit.arg
           /\ rv = NthPrime(unit.arg)

\* C2: for every integer x, x <= 1 included, is_prime(x) returns true exactly
\* when x is a prime number.
C2_IsPrimeExact ==
    Returned("is_prime") => ((rv # 0) <=> IsPrimeNumber(unit.arg))

\* C3: for every v >= 0, int_to_str(v, buffer) leaves in the buffer the
\* NUL-terminated decimal digits of v, most significant first, with no
\* leading zeros and no sign; render(0) = "0".
C3_RendersDecimal ==
    Returned("int_to_str") => Text(At(buffer, 0)) = Decimal(unit.arg)

\* C4: for every v with 0 <= v < 10^9, str_to_int of the string int_to_str(v)
\* wrote returns v, and the fatal non-digit path is not taken.
C4_RoundTrip ==
    unit.fn = "round_trip"
        => /\ pc = "unit_done" => rv = unit.arg
           /\ pc \notin {"str_to_int_exit", "halted"}
           /\ printed = <<>>
           /\ exited = <<>>

\* C4 is reached: 0 has gone through int_to_str, into a buffer that held no
\* NUL before, and back through str_to_int
C4_Witness ==
    /\ Returned("round_trip")
    /\ unit.arg = 0
    /\ unit.fill # 0
    /\ {"int_to_str", "str_to_int"} \subseteq started
    /\ rv = 0

----------------------------------------------------------------------------
(* The claims about a run of the program, under Spec and FairSpec *)

\* the run is on one argument that has a character that is no digit
NonDigitRun == OneArg /\ HasNonDigit(ArgText)

\* such a run is in str_to_int or over, has started nothing else, and has
\* printed and exited with nothing but the error message and status 1
NonDigitRunSafe ==
    NonDigitRun
        => /\ pc \in {"main", "str_to_int", "str_to_int_exit", "halted"}
           /\ started \subseteq {"str_to_int"}
           /\ buffer = BufferFill(0)
           /\ printed \in {<<>>, <<PrintOf(ErrorMessage)>>}
           /\ pc = "str_to_int_exit" => printed # <<>> /\ exited = <<>>
           /\ pc = "halted"
                => printed # <<>> /\ exited = <<1>> /\ ~faulted
           /\ pc # "halted" => exited = <<>>

\* C5: whenever the argument string contains a character that is not a
\* decimal digit, the run prints exactly "Error: non-digit character in
\* integer string\n" and ends with exit status 1; the prime search is never
\* started and no result message is ever assembled or printed.
C5_NonDigitIsFatal ==
    /\ []NonDigitRunSafe
    /\ NonDigitRun ~> (pc = "halted" /\ exited = <<1>>)

\* C5 is reached: the run on "12a3" has ended
C5_Witness ==
    /\ OneArg
    /\ ArgText = <<49, 50, 97, 51>>
    /\ pc = "halted"
    /\ printed = <<PrintOf(ErrorMessage)>>
    /\ exited = <<1>>

\* the run is on no user argument, or on more than one
UsageRun == unit.fn = "main" /\ Len(argv) # 1

\* such a run is at main's entry or over, has started no function, and has
\* printed and exited with nothing but the usage message and status 1
UsageRunSafe ==
    UsageRun
        => /\ pc \in {"main", "main_usage_exit", "halted"}
           /\ started = {}
           /\ buffer = BufferFill(0)
           /\ printed \in {<<>>, <<PrintOf(UsageMessage)>>}
           /\ pc = "main_usage_exit" => printed # <<>> /\ exited = <<>>
           /\ pc = "halted"
                => printed # <<>> /\ exited = <<1>> /\ ~faulted
           /\ pc # "halted" => exited = <<>>

\* C6: whenever main is entered with argc other than 2, no user argument
\* included, it prints "Usage: primes <n>\n" and exits with status 1 before
\* any parsing, search or message assembly takes place.
C6_UsageAtEntry ==
    /\ []UsageRunSafe
    /\ UsageRun ~> (pc = "halted" /\ exited = <<1>>)

\* C6 is reached: the run with no user argument has ended
C6_Witness ==
    /\ unit.fn = "main"
    /\ argv = <<>>
    /\ pc = "halted"
    /\ printed = <<PrintOf(UsageMessage)>>
    /\ exited = <<1>>

\* the status a run on these arguments is to exit with
StatusDue ==
    IF Len(argv) # 1 THEN 1 ELSE IF HasNonDigit(ArgText) THEN 1 ELSE 0

\* C7: in every run that ends, syscall_print is called exactly once and the
\* process terminates exactly once, the print before the termination, with
\* status 0 on the success path and 1 on either error path.
C7_OnePrintOneExit ==
    unit.fn = "main"
        => /\ Len(printed) <= 1
           /\ Len(exited) <= 1
           /\ exited # <<>> => printed # <<>> /\ pc = "halted"
           /\ pc = "halted"
                => Len(printed) = 1 /\ exited = <<StatusDue>> /\ ~faulted

\* the run is on one all-digit argument that denotes a number n >= 1
SuccessRun ==
    /\ OneArg
    /\ ~HasNonDigit(ArgText)
    /\ Len(Significant(ArgText)) \in 1..9

\* C8: on the success path, with an all-digit argument text s denoting
\* n >= 1, the bytes handed to syscall_print are "The ", s, "th prime is: "
\* and the decimal digits of the Nth prime, the length passed is the length
\* of that text, and the run exits with 0: "5" prints "The 5th prime is: 11".
C8_ResultMessage ==
    (SuccessRun /\ printed # <<>>)
        => /\ printed[1] =
                PrintOf(<<84, 104, 101, 32>> \o ArgText
                        \o <<116, 104, 32, 112, 114, 105, 109, 101, 32,
                             105, 115, 58, 32>>
                        \o Decimal(NthPrime(Value(Significant(ArgText)))))
           /\ pc = "halted" => exited = <<0>>

\* naive_nth_prime's frame changes while control stays in its loop
\* (an action: one turn of the loop)
SearchTurn == pc = "naive_nth_prime" /\ pc' = "naive_nth_prime" /\ nnp' # nnp

\* control leaves naive_nth_prime (an action: the return)
SearchLeft == pc = "naive_nth_prime" /\ pc' # "naive_nth_prime"

\* C9: naive_nth_prime terminates for every n >= 0: each turn of the loop
\* raises the candidate by one, raises the found-count only when the tested
\* candidate is prime, the loop is left as soon as the found-count equals n,
\* and for n = 0 the body never runs and the initial candidate 2 is returned.
C9_SearchTerminates ==
    /\ (unit.fn = "naive_nth_prime" /\ pc = "naive_nth_prime")
          ~> (pc = "unit_done")
    /\ [][SearchTurn
            => /\ nnp.count < nnp.n
               /\ nnp'.n = nnp.n
               /\ nnp'.i = nnp.i + 1
               /\ nnp'.count \in {nnp.count, nnp.count + 1}
               /\ nnp'.count > nnp.count => IsPrimeNumber(nnp.i)]_vars
    /\ [][SearchLeft
            => /\ nnp.count = nnp.n
               /\ rv' = nnp.i
               /\ UNCHANGED nnp]_vars
    /\ []((Returned("naive_nth_prime") /\ unit.arg = 0)
            => (rv = 2 /\ nnp.i = 2 /\ nnp.count = 0))

\* C9 is reached: naive_nth_prime(5) has returned after finding five primes
C9_Witness ==
    /\ Returned("naive_nth_prime")
    /\ unit.arg = 5
    /\ nnp.count = 5
    /\ nnp.i > 2

\* C10: while main assembles the message for an all-digit argument of any
\* length, every store of _strcpy and int_to_str stays within buffer[100],
\* and the buffer holds a NUL within its 100 characters when _strlen is
\* computed for the print.
C10_StoresStayInBuffer ==
    (OneArg /\ ~HasNonDigit(ArgText))
        => /\ ~oob
           /\ pc = "main_print" => \E k \in 0..99 : buffer[k] = 0

====
